---- MODULE Spec2Model ----
(***************************************************************************)
(* The Zimbabwe food-security dashboard (src/app.py) as a state machine.   *)
(*                                                                         *)
(* The script is one straight line that Streamlit runs top to bottom on    *)
(* every widget change: load_data (memoised by st.cache_data), the sidebar *)
(* widgets, the filter, the three metrics, one of the category branches    *)
(* and the raw-data table.  Each of these sections is one action; pc is    *)
(* the script's position.                                                  *)
(*                                                                         *)
(* Text is modelled as a sequence of symbols.  For the year and value      *)
(* columns a symbol is one character.  For indicator names a symbol is a   *)
(* fixed chunk of text ("Undernourishment", " Supply", ...), in a          *)
(* capitalised and a lower-case form, so that lower() and the substring    *)
(* tests are computed, not assumed.                                        *)
(*                                                                         *)
(* A float is a record [kind, num, den]: kind "fin" is the rational        *)
(* num/den (den > 0, lowest terms), "nan" is NaN, "inf" is +/-infinity     *)
(* with the sign in num.  kind "N/A" is the literal string "N/A" that the  *)
(* script puts into a metric instead of a number.                          *)
(***************************************************************************)
EXTENDS Integers, Sequences, FiniteSets, TLC

VARIABLES
    file,                \* the CSV on disk: a sequence of raw rows
    cache,               \* st.cache_data's store for load_data: <<>> or <<df>>
    reads,               \* how many times the CSV was read and cleaned
    clears,              \* how many times the cache was explicitly cleared
    reruns,              \* script reruns so far
    pc,                  \* position of the script
    df,                  \* the script's dataset
    selected_indicator,  \* the selectbox's value
    year_range,          \* the slider's value <<low, high>>
    filtered_df,         \* line 54
    latest_value,        \* line 67
    change,              \* lines 71-75: what the "Change Over Period" metric shows
    years_of_data,       \* line 78
    info,                \* which category note (st.info) the script showed
    comparison,          \* the rows the category branch charts
    table                \* line 187

vars == <<file, cache, reads, clears, reruns, pc, df, selected_indicator,
          year_range, filtered_df, latest_value, change, years_of_data,
          info, comparison, table>>

(***************************************************************************)
(* Bounds                                                                  *)
(***************************************************************************)
MaxRows == 3        \* rows of a CSV of the query specification
MaxYearLen == 5     \* characters of a raw year string of the load specification
MaxNameLen == 2     \* symbols of an indicator name of the classify specification
MaxReruns == 2      \* reruns of the cache specification
MaxClears == 1      \* cache invalidations of the cache specification

(***************************************************************************)
(* Generic helpers                                                         *)
(***************************************************************************)
Min(a, b) == IF a <= b THEN a ELSE b

Abs(n) == IF n < 0 THEN -n ELSE n

RECURSIVE Gcd(_, _)
Gcd(a, b) == IF b = 0 THEN a ELSE Gcd(b, a % b)

SeqsUpTo(S, n) == UNION {[1..k -> S] : k \in 0..n}

Range(s) == {s[i] : i \in 1..Len(s)}

(***************************************************************************)
(* Floats                                                                  *)
(***************************************************************************)
NaN == [kind |-> "nan", num |-> 0, den |-> 1]

NA == [kind |-> "N/A", num |-> 0, den |-> 1]

Inf(sign) == [kind |-> "inf", num |-> sign, den |-> 0]

Fin(n, d) ==
    LET g == Gcd(Abs(n), Abs(d))
        s == IF d < 0 THEN -1 ELSE 1
    IN  [kind |-> "fin", num |-> s * (n \div g), den |-> s * (d \div g)]

Sign(n) == IF n < 0 THEN -1 ELSE IF n > 0 THEN 1 ELSE 0

\* a - b on float64
FSub(a, b) ==
    IF a.kind = "nan" \/ b.kind = "nan" THEN NaN
    ELSE IF a.kind = "inf" /\ b.kind = "inf"
         THEN (IF a.num = b.num THEN NaN ELSE a)
    ELSE IF a.kind = "inf" THEN a
    ELSE IF b.kind = "inf" THEN Inf(-b.num)
    ELSE Fin(a.num * b.den - b.num * a.den, a.den * b.den)

\* a / b on float64: numpy divides by zero to inf or nan and raises nothing
FDiv(a, b) ==
    IF a.kind = "nan" \/ b.kind = "nan" THEN NaN
    ELSE IF a.kind = "inf" /\ b.kind = "inf" THEN NaN
    ELSE IF a.kind = "inf"
         THEN Inf(a.num * (IF b.num < 0 THEN -1 ELSE 1))
    ELSE IF b.kind = "inf" THEN Fin(0, 1)
    ELSE IF b.num = 0
         THEN (IF a.num = 0 THEN NaN ELSE Inf(Sign(a.num)))
    ELSE Fin(a.num * b.den, a.den * b.num)

\* a * n on float64, n a positive integer
FMul(a, n) ==
    IF a.kind = "fin" THEN Fin(a.num * n, a.den) ELSE a

(***************************************************************************)
(* Text of the year and value columns                                      *)
(***************************************************************************)
Digits == {"0", "1", "2", "3", "4", "5", "6", "7", "8", "9"}

DigitVal(c) ==
    CASE c = "0" -> 0 [] c = "1" -> 1 [] c = "2" -> 2 [] c = "3" -> 3
      [] c = "4" -> 4 [] c = "5" -> 5 [] c = "6" -> 6 [] c = "7" -> 7
      [] c = "8" -> 8 [] c = "9" -> 9

\* s[:n]
StrPrefix(s, n) == SubSeq(s, 1, Min(n, Len(s)))

RECURSIVE DigitsVal(_)
DigitsVal(s) ==
    IF s = <<>> THEN 0
    ELSE 10 * DigitsVal(SubSeq(s, 1, Len(s) - 1)) + DigitVal(s[Len(s)])

IsDigits(s) == s # <<>> /\ \A i \in 1..Len(s) : s[i] \in Digits

\* int(s): an optional sign, then one or more digits
IsInt(s) ==
    \/ IsDigits(s)
    \/ s # <<>> /\ s[1] \in {"-", "+"} /\ IsDigits(Tail(s))

IntVal(s) ==
    IF s[1] = "-" THEN -DigitsVal(Tail(s))
    ELSE IF s[1] = "+" THEN DigitsVal(Tail(s))
    ELSE DigitsVal(s)

\* pd.to_numeric(errors='coerce') of one cell
to_numeric(s) == IF IsInt(s) THEN Fin(IntVal(s), 1) ELSE NaN

\* .astype(str).str[:4] of one cell
year_text(s) == StrPrefix(s, 4)

\* load_data's cleaning of the rows it read; .astype(int) raises on the first
\* cell that is no integer and the whole call fails
load_data(rows) ==
    IF \A i \in 1..Len(rows) : IsInt(year_text(rows[i].year))
    THEN [ok |-> TRUE,
          df |-> [i \in 1..Len(rows) |->
                    [idx   |-> i,
                     item  |-> rows[i].item,
                     year  |-> IntVal(year_text(rows[i].year)),
                     value |-> to_numeric(rows[i].value),
                     unit  |-> rows[i].unit]]]
    ELSE [ok |-> FALSE, df |-> <<>>]

(***************************************************************************)
(* Text of indicator names                                                 *)
(***************************************************************************)
NameSymbols ==
    {"Undernourishment", "undernourishment",
     "Dietary Energy", "dietary energy",
     " Supply", " supply",
     "Gross Domestic Product", "gross domestic product",
     "Children", "children",
     "Prevalence", "prevalence"}

\* str.lower() of one symbol
LowerSymbol(c) ==
    CASE c = "Undernourishment" -> "undernourishment"
      [] c = "Dietary Energy" -> "dietary energy"
      [] c = " Supply" -> " supply"
      [] c = "Gross Domestic Product" -> "gross domestic product"
      [] c = "Children" -> "children"
      [] c = "Prevalence" -> "prevalence"
      [] OTHER -> c

\* str.lower()
lower(s) == [i \in 1..Len(s) |-> LowerSymbol(s[i])]

\* pat in s
In(pat, s) ==
    \E i \in 1..(Len(s) - Len(pat) + 1) : SubSeq(s, i, i + Len(pat) - 1) = pat

\* Series.str.contains(pat, case=False) of one cell
contains(s, pat) == In(lower(pat), lower(s))

(***************************************************************************)
(* The query expressions of the script                                     *)
(***************************************************************************)
\* the values of a column, duplicates dropped, in order of first appearance
RECURSIVE unique(_)
unique(s) ==
    IF s = <<>> THEN <<>>
    ELSE LET u == unique(SubSeq(s, 1, Len(s) - 1))
             x == s[Len(s)]
         IN  IF x \in Range(u) THEN u ELSE Append(u, x)

items(d) == [i \in 1..Len(d) |-> d[i].item]

years(d) == {d[i].year : i \in 1..Len(d)}

\* df['item'].unique()
indicators(d) == unique(items(d))

\* df['year'].min(), df['year'].max(); of a non-empty dataset
min_year(d) == CHOOSE y \in years(d) : \A z \in years(d) : y <= z

max_year(d) == CHOOSE y \in years(d) : \A z \in years(d) : z <= y

\* df[(df['item'] == item) & (df['year'] >= low) & (df['year'] <= high)]
mask_strict(d, item, low, high) ==
    SelectSeq(d, LAMBDA r : r.item = item /\ r.year >= low /\ r.year < high)

mask(d, item, low, high) ==
    SelectSeq(d, LAMBDA r : r.item = item /\ r.year >= low /\ r.year <= high)

IsSortedByYear(s) == \A i, j \in 1..Len(s) : i < j => s[i].year <= s[j].year

Orderings(s) ==
    {[i \in 1..Len(s) |-> s[p[i]]] :
        p \in {q \in [1..Len(s) -> 1..Len(s)] :
                 \A i, j \in 1..Len(s) : q[i] = q[j] => i = j}}

\* .sort_values('year'): pandas sorts with kind='quicksort', which numpy does
\* not promise to be stable, so rows of one year come out in any order
sort_values(s) == {t \in Orderings(s) : IsSortedByYear(t)}

\* the first category test the name passes (lines 99, 127, 155)
category_children_first(name) ==
    IF In(<<"children">>, lower(name)) THEN "children"
    ELSE IF In(<<"undernourishment">>, lower(name)) THEN "undernourishment"
    ELSE IF In(<<"dietary energy">>, lower(name)) THEN "dietary energy"
    ELSE "none"

category(name) ==
    IF In(<<"undernourishment">>, lower(name)) THEN "undernourishment"
    ELSE IF In(<<"dietary energy">>, lower(name)) THEN "dietary energy"
    ELSE IF In(<<"children">>, lower(name)) THEN "children"
    ELSE "none"

\* df[df['item'].str.contains(pat, case=False)]
related(d, pat) == SelectSeq(d, LAMBDA r : contains(r.item, pat))

\* secondary[secondary['year'].isin(primary['year'])]
alignByYear_all(primary, secondary) == secondary

alignByYear(primary, secondary) ==
    SelectSeq(secondary, LAMBDA r : r.year \in years(primary))

\* df[df['item'].isin(chosen) & (df['year'] >= low) & (df['year'] <= high)]
child_rows(d, chosen, low, high) ==
    SelectSeq(d, LAMBDA r : r.item \in chosen /\ r.year >= low /\ r.year <= high)

\* filtered_df[['year', 'value', 'unit', ...]].reset_index(drop=True)
raw_data(s) ==
    [i \in 1..Len(s) |->
        [idx |-> i, year |-> s[i].year, value |-> s[i].value, unit |-> s[i].unit]]

\* lines 67, 71-75 and 78
latest(s) == IF s # <<>> THEN s[Len(s)].value ELSE NA

percent_change_nonempty(s) ==
    IF Len(s) > 0
    THEN FMul(FDiv(FSub(s[Len(s)].value, s[1].value), s[1].value), 100)
    ELSE NA

percent_change(s) ==
    IF Len(s) > 1
    THEN FMul(FDiv(FSub(s[Len(s)].value, s[1].value), s[1].value), 100)
    ELSE NA

NoComparison == [kind |-> "none", related |-> <<>>, rows |-> <<>>]

(***************************************************************************)
(* The script, section by section                                          *)
(***************************************************************************)
Unset == [kind |-> "unset", num |-> 0, den |-> 1]

locals == <<df, selected_indicator, year_range, filtered_df, latest_value,
            change, years_of_data, info, comparison, table>>

outputs == <<latest_value, change, years_of_data, info, comparison, table>>

store == <<file, cache, reads, clears, reruns>>

\* the script's variables before its first line has run
Fresh ==
    /\ df = <<>>
    /\ selected_indicator = <<>>
    /\ year_range = <<0, 0>>
    /\ filtered_df = <<>>
    /\ latest_value = Unset
    /\ change = Unset
    /\ years_of_data = 0
    /\ info = "unset"
    /\ comparison = NoComparison
    /\ table = <<>>

\* a process that has just started: nothing cached, nothing read
Started ==
    /\ cache = <<>>
    /\ reads = 0
    /\ clears = 0
    /\ reruns = 0
    /\ pc = "load"
    /\ Fresh

\* lines 17-33 without the decorator: every run reads and cleans the CSV
LoadDataUncached ==
    /\ pc = "load"
    /\ reads' = reads + 1
    /\ LET r == load_data(file)
       IN  IF r.ok
           THEN /\ df' = r.df
                /\ cache' = <<r.df>>
                /\ pc' = "sidebar"
           ELSE /\ pc' = "load_error"
                /\ UNCHANGED <<df, cache>>
    /\ UNCHANGED <<file, clears, reruns, selected_indicator, year_range,
                   filtered_df, outputs>>

\* lines 17-33: df = load_data() under @st.cache_data.  A hit hands out a copy
\* of the stored dataset; a miss runs the body and stores what it returns; a
\* body that raises stores nothing and ends the script run.
LoadData ==
    /\ pc = "load"
    /\ IF cache # <<>>
       THEN /\ df' = cache[1]
            /\ pc' = "sidebar"
            /\ UNCHANGED <<cache, reads>>
       ELSE /\ reads' = reads + 1
            /\ LET r == load_data(file)
               IN  IF r.ok
                   THEN /\ df' = r.df
                        /\ cache' = <<r.df>>
                        /\ pc' = "sidebar"
                   ELSE /\ pc' = "load_error"
                        /\ UNCHANGED <<df, cache>>
    /\ UNCHANGED <<file, clears, reruns, selected_indicator, year_range,
                   filtered_df, outputs>>

\* lines 40-51: the selectbox offers the dataset's indicators, the slider the
\* windows between the dataset's first and last year (here: the windows whose
\* ends are years of the dataset).  int() of the minimum of an empty column
\* raises.
Sidebar ==
    /\ pc = "sidebar"
    /\ IF df = <<>>
       THEN /\ pc' = "sidebar_error"
            /\ UNCHANGED <<selected_indicator, year_range>>
       ELSE \E item \in Range(indicators(df)) :
            \E low, high \in years(df) :
                /\ min_year(df) <= low
                /\ low <= high
                /\ high <= max_year(df)
                /\ selected_indicator' = item
                /\ year_range' = <<low, high>>
                /\ pc' = "filter"
    /\ UNCHANGED <<store, df, filtered_df, outputs>>

\* lines 54-58 with the sort done in place on df
FilterInPlace ==
    /\ pc = "filter"
    /\ df' \in sort_values(df)
    /\ filtered_df' = mask(df', selected_indicator, year_range[1], year_range[2])
    /\ pc' = "metrics"
    /\ UNCHANGED <<store, selected_indicator, year_range, outputs>>

\* lines 54-58
Filter ==
    /\ pc = "filter"
    /\ filtered_df' \in
         sort_values(mask(df, selected_indicator, year_range[1], year_range[2]))
    /\ pc' = "metrics"
    /\ UNCHANGED <<store, df, selected_indicator, year_range, outputs>>

\* lines 64-78
Metrics ==
    /\ pc = "metrics"
    /\ latest_value' = latest(filtered_df)
    /\ change' = percent_change(filtered_df)
    /\ years_of_data' = Len(filtered_df)
    /\ pc' = "analysis"
    /\ UNCHANGED <<store, df, selected_indicator, year_range, filtered_df,
                   info, comparison, table>>

\* lines 99-125
Undernourishment ==
    /\ pc = "analysis"
    /\ category(selected_indicator) = "undernourishment"
    /\ info' = "undernourishment"
    /\ LET energy_df == related(df, <<"dietary energy", " supply">>)
       IN  comparison' =
             IF energy_df # <<>>
             THEN [kind |-> "energy", related |-> energy_df,
                   rows |-> alignByYear(filtered_df, energy_df)]
             ELSE NoComparison
    /\ pc' = "table"
    /\ UNCHANGED <<store, df, selected_indicator, year_range, filtered_df,
                   latest_value, change, years_of_data, table>>

\* lines 127-153
DietaryEnergy ==
    /\ pc = "analysis"
    /\ category(selected_indicator) = "dietary energy"
    /\ info' = "dietary energy"
    /\ LET gdp_df == related(df, <<"gross domestic product">>)
       IN  comparison' =
             IF gdp_df # <<>>
             THEN [kind |-> "gdp", related |-> gdp_df,
                   rows |-> alignByYear(filtered_df, gdp_df)]
             ELSE NoComparison
    /\ pc' = "table"
    /\ UNCHANGED <<store, df, selected_indicator, year_range, filtered_df,
                   latest_value, change, years_of_data, table>>

\* lines 155-183: the multiselect offers the child indicators and hands back
\* any subset of them
Children ==
    /\ pc = "analysis"
    /\ category(selected_indicator) = "children"
    /\ info' = "children"
    /\ LET child_df == related(df, <<"children">>)
           child_indicators == unique(items(child_df))
       IN  IF Len(child_indicators) > 1
           THEN \E selected_child_indicators \in SUBSET Range(child_indicators) :
                  comparison' =
                    IF selected_child_indicators # {}
                    THEN [kind |-> "children", related |-> child_df,
                          rows |-> child_rows(df, selected_child_indicators,
                                              year_range[1], year_range[2])]
                    ELSE NoComparison
           ELSE comparison' = NoComparison
    /\ pc' = "table"
    /\ UNCHANGED <<store, df, selected_indicator, year_range, filtered_df,
                   latest_value, change, years_of_data, table>>

\* no branch of lines 99-183 is taken
Other ==
    /\ pc = "analysis"
    /\ category(selected_indicator) = "none"
    /\ info' = "none"
    /\ comparison' = NoComparison
    /\ pc' = "table"
    /\ UNCHANGED <<store, df, selected_indicator, year_range, filtered_df,
                   latest_value, change, years_of_data, table>>

\* lines 186-187
Table ==
    /\ pc = "table"
    /\ table' = raw_data(filtered_df)
    /\ pc' = "done"
    /\ UNCHANGED <<store, df, selected_indicator, year_range, filtered_df,
                   latest_value, change, years_of_data, info, comparison>>

\* one run of the script
Script ==
    \/ LoadData
    \/ Sidebar
    \/ Filter
    \/ Metrics
    \/ Undernourishment
    \/ DietaryEnergy
    \/ Children
    \/ Other
    \/ Table

(***************************************************************************)
(* What Streamlit and the user do between runs                             *)
(***************************************************************************)
\* a widget change, or the viewer's "Rerun", starts the script again
Rerun ==
    /\ pc \in {"done", "load_error", "sidebar_error"}
    /\ reruns < MaxReruns
    /\ reruns' = reruns + 1
    /\ pc' = "load"
    /\ df' = <<>>
    /\ selected_indicator' = <<>>
    /\ year_range' = <<0, 0>>
    /\ filtered_df' = <<>>
    /\ latest_value' = Unset
    /\ change' = Unset
    /\ years_of_data' = 0
    /\ info' = "unset"
    /\ comparison' = NoComparison
    /\ table' = <<>>
    /\ UNCHANGED <<file, cache, reads, clears>>

\* st.cache_data.clear(), or "Clear cache" in the viewer's menu
ClearCache ==
    /\ cache # <<>>
    /\ clears < MaxClears
    /\ clears' = clears + 1
    /\ cache' = <<>>
    /\ UNCHANGED <<file, reads, reruns, pc, locals>>

(***************************************************************************)
(* The CSV files the specifications start from                             *)
(***************************************************************************)
Row(name, year, value, unit) ==
    [item |-> name, year |-> year, value |-> value, unit |-> unit]

Undernourished == <<"Prevalence", "undernourishment">>
EnergySupply == <<"Dietary Energy", " Supply">>
GDP == <<"Gross Domestic Product">>
Stunted == <<"Children", "prevalence">>
Wasted == <<"Prevalence", "children">>

Y2018 == <<"2", "0", "1", "8">>
Y2019 == <<"2", "0", "1", "9">>
Y2020 == <<"2", "0", "2", "0">>

Ten == <<"1", "0">>
Twelve == <<"1", "2">>
Zero == <<"0">>
Missing == <<"N", "/", "A">>

\* rows of the query specification: the undernourishment series takes every
\* kind of value in two years and has a third year, the series it is compared
\* with are plain
QueryRows ==
    {Row(Undernourished, y, v, "%") : y \in {Y2018, Y2019}, v \in {Ten, Zero, Missing}}
      \cup {Row(EnergySupply, y, Ten, "kcal/cap/d") : y \in {Y2018, Y2019}}
      \cup {Row(Undernourished, Y2020, Twelve, "%"),
            Row(GDP, Y2018, Ten, "Int$"),
            Row(Stunted, Y2018, Ten, "%"),
            Row(Wasted, Y2019, Ten, "%")}

QueryFiles == SeqsUpTo(QueryRows, MaxRows)

\* raw year cells of the load specification
YearChars == {"0", "1", "-", "x"}

LoadFiles ==
    LET cells == SeqsUpTo(YearChars, MaxYearLen)
    IN  {<<Row(n, y, Ten, "%")>> :
            n \in {Undernourished, EnergySupply, GDP, Stunted}, y \in cells}
          \cup {<<Row(GDP, Y2018, Ten, "Int$"), Row(GDP, y, Missing, "Int$")>> : y \in cells}

\* indicator names of the classify specification, each in a file that also
\* holds the series the branches look up
ClassifyFiles ==
    {<<Row(n, Y2018, Ten, "%"),
       Row(EnergySupply, Y2018, Ten, "kcal/cap/d"),
       Row(GDP, Y2019, Ten, "Int$"),
       Row(Stunted, Y2018, Ten, "%")>> :
         n \in SeqsUpTo(NameSymbols, MaxNameLen) \ {<<>>}}

\* files of the cache specification: two well-formed ones and one whose load fails
CacheFiles ==
    {<<Row(Undernourished, Y2018, Ten, "%"),
       Row(EnergySupply, Y2018, Ten, "kcal/cap/d"),
       Row(GDP, Y2018, Ten, "Int$"),
       Row(Stunted, Y2018, Ten, "%")>>,
     <<Row(Undernourished, Y2019, Missing, "%")>>,
     <<Row(GDP, <<"x">>, Ten, "Int$")>>}

\* the CSV is replaced on disk
FileChange ==
    /\ file' \in CacheFiles \ {file}
    /\ UNCHANGED <<cache, reads, clears, reruns, pc, locals>>

(***************************************************************************)
(* Specifications                                                          *)
(***************************************************************************)
Init == Started /\ file \in QueryFiles

Next == Script

\* one run of the script over every small well-formed CSV
Spec == Init /\ [][Next]_vars

InitLoad == Started /\ file \in LoadFiles

\* one run of the script over CSVs with arbitrary year cells
SpecLoad == InitLoad /\ [][Next]_vars

InitClassify == Started /\ file \in ClassifyFiles

\* one run of the script over CSVs with arbitrary indicator names
SpecClassify == InitClassify /\ [][Next]_vars

InitCache == Started /\ file \in CacheFiles

NextCache == Script \/ Rerun \/ ClearCache \/ FileChange

\* a process lifetime: runs, reruns, cache invalidations, changes of the CSV
SpecCache == InitCache /\ [][NextCache]_vars

(***************************************************************************)
(* Properties                                                              *)
(***************************************************************************)
Filtered == pc \in {"metrics", "analysis", "table", "done"}

Summarised == pc \in {"analysis", "table", "done"}

Analysed == pc \in {"table", "done"}

First(s) == s[1]

Last(s) == s[Len(s)]

\* the place of row r in s
PlaceIn(s, r) == CHOOSE k \in 1..Len(s) : s[k] = r

\* C1: the filtered sequence holds exactly the dataset's rows of the selected
\* indicator whose year lies in the window, both ends included, each once, and
\* its years never decrease.
C1_FilterExactSorted ==
    Filtered =>
        LET wanted == {r \in Range(df) :
                         /\ r.item = selected_indicator
                         /\ year_range[1] <= r.year
                         /\ r.year <= year_range[2]}
        IN  /\ Range(filtered_df) = wanted
            /\ Len(filtered_df) = Cardinality(wanted)
            /\ \A i \in 1..(Len(filtered_df) - 1) :
                 filtered_df[i].year <= filtered_df[i + 1].year

\* C1 witness: the window dropped a row of the selected indicator and the sort
\* moved a later row of the file in front of an earlier one.
C1_Witness ==
    /\ Filtered
    /\ Len(df) = 3
    /\ \A i \in 1..Len(df) : df[i].item = selected_indicator
    /\ Len(filtered_df) = 2
    /\ filtered_df[1].idx > filtered_df[2].idx
    /\ filtered_df[1].year < filtered_df[2].year

\* C2: with two or more filtered rows the change metric is
\* (last - first) / first * 100 when the first value is a non-zero number, and
\* is "N/A" when the first value is zero or missing.
C2_PercentChangeOrNotApplicable ==
    (Summarised /\ Len(filtered_df) >= 2) =>
        LET f == First(filtered_df).value
            l == Last(filtered_df).value
        IN  /\ (f.kind = "fin" /\ f.num # 0 /\ l.kind = "fin") =>
                 change = Fin((l.num - f.num) * 100, f.num)
            /\ (f.kind = "nan" \/ (f.kind = "fin" /\ f.num = 0)) =>
                 change = NA

\* C3: with two or more filtered rows of which the last has a missing value,
\* the latest value is missing and the change metric is "N/A".
C3_AbsentLastNotApplicable ==
    (Summarised /\ Len(filtered_df) >= 2 /\ Last(filtered_df).value = NaN) =>
        /\ latest_value = NaN
        /\ change = NA

\* C4: with fewer than two filtered rows the script gets past the metrics, the
\* change metric is "N/A", the count is the number of rows, and the latest
\* value is "N/A" for no row and the row's value for one row.
C4_FewerThanTwoRecords ==
    /\ (pc = "metrics" /\ Len(filtered_df) < 2) => ENABLED Metrics
    /\ (Summarised /\ Len(filtered_df) < 2) =>
        /\ change = NA
        /\ years_of_data = Len(filtered_df)
        /\ years_of_data \in {0, 1}
        /\ (Len(filtered_df) = 0 => latest_value = NA)
        /\ (Len(filtered_df) = 1 => latest_value = filtered_df[1].value)

\* C4 witness: the metrics of a single filtered row have been computed.
C4_Witness ==
    /\ Summarised
    /\ Len(filtered_df) = 1
    /\ latest_value.kind = "fin"
    /\ change = NA

\* C5: a load that does not fail leaves every row with a year of four digits.
C5_LoadedYearsHaveFourDigits ==
    (pc \notin {"load", "load_error"}) =>
        \A i \in 1..Len(df) : df[i].year \in 1000..9999

\* C6: while the cache holds a dataset no step reads the CSV and the script's
\* load hands out the cached dataset, whatever the CSV holds by then; the CSV
\* is read only by a load that finds the cache empty; and a cached dataset
\* goes away only by an explicit invalidation.
C6_LoadOnceUntilInvalidated ==
    [][/\ (cache # <<>> /\ pc = "load" /\ pc' # "load") =>
            (reads' = reads /\ cache' = cache /\ df' = cache[1] /\ pc' = "sidebar")
       /\ (reads' # reads) =>
            (cache = <<>> /\ pc = "load" /\ reads' = reads + 1)
       /\ (cache # <<>> /\ cache' # cache) =>
            (cache' = <<>> /\ clears' = clears + 1)]_vars

\* C6 witness: a rerun got the dataset of the first run from the cache although
\* the CSV on disk has changed since, and the CSV was read once.
C6_Witness ==
    /\ reruns >= 1
    /\ pc = "sidebar"
    /\ reads = 1
    /\ clears = 0
    /\ cache = <<df>>
    /\ df # load_data(file).df

\* C7: no step of the script after the load changes the loaded dataset.
C7_QueriesLeaveDatasetUnchanged ==
    [][pc # "load" => (df' = df /\ cache' = cache)]_vars

\* C7 witness: every query has run over a dataset that is not in year order,
\* a comparison was built, and the dataset is still the one that was loaded.
C7_Witness ==
    /\ pc = "done"
    /\ cache = <<df>>
    /\ \E i \in 1..(Len(df) - 1) : df[i].year > df[i + 1].year
    /\ Len(filtered_df) >= 2
    /\ comparison.kind # "none"
    /\ table # <<>>

\* C8: the aligned rows are exactly the rows of the secondary series whose
\* year occurs in the primary series, each once and in the secondary's order;
\* and aligning a series with itself gives the series back.
C8_AlignByYear ==
    (Analysed /\ comparison.kind \in {"energy", "gdp"}) =>
        LET A == filtered_df
            B == comparison.related
            R == comparison.rows
        IN  /\ Range(R) = {b \in Range(B) : \E i \in 1..Len(A) : A[i].year = b.year}
            /\ Len(R) = Cardinality(Range(R))
            /\ \A i, j \in 1..Len(R) :
                 i < j => PlaceIn(B, R[i]) < PlaceIn(B, R[j])
            /\ alignByYear(A, A) = A
            /\ alignByYear(B, B) = B

\* C8 witness: the alignment kept a row of the secondary series and dropped
\* another.
C8_Witness ==
    /\ Analysed
    /\ comparison.kind = "energy"
    /\ Len(comparison.rows) >= 1
    /\ Len(comparison.rows) < Len(comparison.related)

HasSymbol(name, S) == \E i \in 1..Len(name) : name[i] \in S

\* C9: the script takes exactly one category branch: undernourishment if the
\* name contains that word in either case, else dietary energy, else children,
\* else none, and then it builds no comparison.
C9_ClassifyInOrder ==
    Analysed =>
        LET u == HasSymbol(selected_indicator, {"Undernourishment", "undernourishment"})
            d == HasSymbol(selected_indicator, {"Dietary Energy", "dietary energy"})
            c == HasSymbol(selected_indicator, {"Children", "children"})
        IN  /\ info \in {"undernourishment", "dietary energy", "children", "none"}
            /\ u => info = "undernourishment"
            /\ (~u /\ d) => info = "dietary energy"
            /\ (~u /\ ~d /\ c) => info = "children"
            /\ (~u /\ ~d /\ ~c) => (info = "none" /\ comparison = NoComparison)
            /\ (info = "undernourishment") => comparison.kind \in {"none", "energy"}
            /\ (info = "dietary energy") => comparison.kind \in {"none", "gdp"}
            /\ (info = "children") => comparison.kind \in {"none", "children"}

\* C9 witness: a name that holds both "Undernourishment" and "Children" went
\* down the undernourishment branch.
C9_Witness ==
    /\ Analysed
    /\ HasSymbol(selected_indicator, {"Undernourishment"})
    /\ HasSymbol(selected_indicator, {"Children", "children"})
    /\ info = "undernourishment"
    /\ comparison.kind = "energy"

\* C10: filtered rows of one year keep the order they have in the dataset.
C10_SortIsStable ==
    Filtered =>
        \A i, j \in 1..Len(filtered_df) :
            (i < j /\ filtered_df[i].year = filtered_df[j].year) =>
                filtered_df[i].idx < filtered_df[j].idx

====
